---------------------------- MODULE Spec2Model ----------------------------
(***************************************************************************)
(* A state-machine model of the recursive-descent parser of                *)
(* Vicharak/files&programs/parser.c.                                       *)
(*                                                                         *)
(* The C call stack is the variable `stack`: one frame per active call,    *)
(* whose `pc` is the number of the source line the call executes next.     *)
(* malloc'ed nodes live in `heap`; a node pointer is an index into it and  *)
(* 0 is NULL.  printf output is `out` (parsed statements) and `err`        *)
(* (syntax-error messages); `status` is how the process stands.            *)
(*                                                                         *)
(* getNextToken has an empty body in the source (lines 27-28).  It is      *)
(* modelled from the tokenizer contract of the specification: the input    *)
(* is a finite token sequence ending in one TOKEN_EOF, and each call       *)
(* delivers the next token of it into currentToken.                        *)
(***************************************************************************)
EXTENDS Integers, Sequences, FiniteSets

VARIABLES
    tokens,        \* the token sequence the tokenizer delivers, TOKEN_EOF last
    pos,           \* number of tokens delivered so far (tokenizer cursor)
    currentToken,  \* global Token currentToken (line 25)
    heap,          \* the nodes allocated by createNode, in allocation order
    builtBy,       \* history: for each node, the function that allocated it
    stack,         \* the call stack, innermost frame last
    ret,           \* the value returned by the call that returned last
    out,           \* the "Parsed statement with root" lines printed (line 114)
    err,           \* the "Syntax error" lines printed (lines 42, 52)
    status         \* "running", "done" (main returns 0), "error" (exit(1)), "crash"

vars == <<tokens, pos, currentToken, heap, builtBy, stack, ret, out, err, status>>

-----------------------------------------------------------------------------
(* TokenType (lines 7-11): the enumerators in declaration order.           *)
TOKEN_INT == 0
TOKEN_IDENTIFIER == 1
TOKEN_NUMBER == 2
TOKEN_ASSIGN == 3
TOKEN_PLUS == 4
TOKEN_MINUS == 5
TOKEN_IF == 6
TOKEN_EQUAL == 7
TOKEN_LBRACE == 8
TOKEN_RBRACE == 9
TOKEN_SEMICOLON == 10
TOKEN_EOF == 11
TOKEN_UNKNOWN == 12

(* Token (lines 13-16).                                                    *)
Tok(t, s) == [type |-> t, text |-> s]

NULL == 0

(* The value of a local variable that was declared and never assigned.     *)
Uninit == -1

-----------------------------------------------------------------------------
(* Bounds of the inputs.                                                   *)
MaxArb == 3      \* longest arbitrary token sequence
MaxOps == 2      \* most operators in a generated expression
MaxStmts == 2    \* most statements in a generated program

(* The statement lines logged in `out`: one more than any generated program *)
(* has statements.                                                         *)
MaxOut == MaxStmts + 1

-----------------------------------------------------------------------------
(* The inputs: token sequences as the tokenizer would deliver them.        *)

T_int == Tok(TOKEN_INT, "")
T_assign == Tok(TOKEN_ASSIGN, "")
T_plus == Tok(TOKEN_PLUS, "")
T_minus == Tok(TOKEN_MINUS, "")
T_if == Tok(TOKEN_IF, "")
T_equal == Tok(TOKEN_EQUAL, "")
T_lbrace == Tok(TOKEN_LBRACE, "")
T_rbrace == Tok(TOKEN_RBRACE, "")
T_semicolon == Tok(TOKEN_SEMICOLON, "")
T_eof == Tok(TOKEN_EOF, "")
T_unknown == Tok(TOKEN_UNKNOWN, "")
Id(s) == Tok(TOKEN_IDENTIFIER, s)
Num(s) == Tok(TOKEN_NUMBER, s)

IdentTokens == {Id("a"), Id("b")}
FactorTokens == IdentTokens \cup {Num("1")}
OperatorTokens == {T_plus, T_minus}

(* Every token kind but TOKEN_EOF, one lexeme each.                        *)
Alphabet ==
    {T_int, Id("a"), Num("1"), T_assign, T_plus, T_minus, T_if, T_equal,
     T_lbrace, T_rbrace, T_semicolon, T_unknown}

RECURSIVE SeqsUpTo(_, _)
SeqsUpTo(S, n) ==
    IF n = 0 THEN {<<>>}
    ELSE LET shorter == SeqsUpTo(S, n - 1)
         IN  shorter \cup {Append(s, t) : s \in shorter, t \in S}

(* Expression := Factor { ("+" | "-") Factor } with exactly k operators.   *)
RECURSIVE ExprsWith(_)
ExprsWith(k) ==
    IF k = 0 THEN {<<f>> : f \in FactorTokens}
    ELSE {e \o <<o, f>> : e \in ExprsWith(k - 1), o \in OperatorTokens, f \in FactorTokens}

ExprsUpTo(n) == UNION {ExprsWith(k) : k \in 0..n}

DeclarationOf(id) == <<T_int, id, T_semicolon>>
AssignmentOf(id, e) == <<id, T_assign>> \o e \o <<T_semicolon>>
ConditionalOf(e1, e2, a) ==
    <<T_if, T_lbrace>> \o e1 \o <<T_equal>> \o e2 \o <<T_rbrace, T_lbrace>> \o a \o <<T_rbrace>>

Declarations == {DeclarationOf(id) : id \in IdentTokens}
Assignments == {AssignmentOf(id, e) : id \in IdentTokens, e \in ExprsUpTo(MaxOps)}

E0 == <<Id("a")>>
A0 == AssignmentOf(Id("b"), <<Num("1")>>)

(* Conditionals: each condition varied with the rest fixed, the body       *)
(* varied, and short conditions and bodies varied together.                *)
ShortAssignments == {AssignmentOf(id, e) : id \in IdentTokens, e \in ExprsUpTo(1)}

Conditionals ==
    {ConditionalOf(e, E0, A0) : e \in ExprsUpTo(MaxOps)}
    \cup {ConditionalOf(E0, e, A0) : e \in ExprsUpTo(MaxOps)}
    \cup {ConditionalOf(E0, <<Num("1")>>, a) : a \in ShortAssignments}
    \cup {ConditionalOf(e1, e2, AssignmentOf(Id("b"), e3)) :
             e1 \in ExprsWith(0), e2 \in ExprsWith(0), e3 \in ExprsWith(0)}

(* A few statements of each kind, for programs of several statements.      *)
SampleStatements ==
    { DeclarationOf(Id("a")),
      AssignmentOf(Id("b"), <<Num("1")>>),
      AssignmentOf(Id("a"), <<Id("a"), T_minus, Num("1")>>),
      ConditionalOf(<<Id("a"), T_plus, Id("b")>>, <<Num("1")>>, A0) }

RECURSIVE ProgramsOf(_)
ProgramsOf(n) ==
    IF n = 0 THEN {<<>>}
    ELSE LET shorter == ProgramsOf(n - 1)
         IN  shorter \cup {p \o s : p \in shorter, s \in SampleStatements}

(* A statement cut short anywhere and continued by any one token, alone or *)
(* after a complete declaration.                                           *)
Prefix(s, n) == SubSeq(s, 1, IF n < Len(s) THEN n ELSE Len(s))

Damaged ==
    {pre \o Prefix(s, n) \o <<t>> :
        pre \in {<<>>, DeclarationOf(Id("b"))},
        s \in SampleStatements, n \in 0..6, t \in Alphabet}
    \cup
    {Prefix(s, n) \o <<t>> :
        s \in {ConditionalOf(<<Id("a"), T_plus, Id("b")>>, <<Num("1")>>, A0)},
        n \in 7..14, t \in Alphabet}

Inputs ==
    {s \o <<T_eof>> :
        s \in SeqsUpTo(Alphabet, MaxArb) \cup Declarations \cup Assignments
              \cup Conditionals \cup ProgramsOf(MaxStmts) \cup Damaged}

-----------------------------------------------------------------------------
(* The call stack.  A frame holds the function, the line it executes next, *)
(* whether the call made on that line has returned (await), its locals,    *)
(* and, as history, the cursor and the heap size at the call.              *)
Frame(fn, expected) ==
    [fn |-> fn,
     pc |-> CASE fn = "parseProgram" -> 104
              [] fn = "match" -> 39
              [] fn = "parseFactor" -> 48
              [] fn = "parseExpression" -> 59
              [] fn = "parseAssignment" -> 72
              [] fn = "parseDeclaration" -> 81
              [] fn = "parseConditional" -> 89,
     await |-> FALSE,
     expected |-> expected,        \* match: the parameter `expected`
     node |-> Uninit,              \* Node* node (parseProgram: Node* stmt)
     operatorNode |-> Uninit,      \* Node* operatorNode (parseConditional: Node* body)
     operator |-> T_eof,           \* Token operator
     start |-> pos,                \* history: cursor at the call (parseProgram:
                                   \* at the loop test of line 105)
     base |-> Len(heap)]           \* history: nodes allocated before the call

top == stack[Len(stack)]

(* The stack with the running frame's fields changed.                      *)
Goto(l) == [stack EXCEPT ![Len(stack)].pc = l, ![Len(stack)].await = FALSE]
SetTop(f) == [stack EXCEPT ![Len(stack)] = f]

(* A call: the caller resumes at line l once the callee has returned.      *)
Call(l, awaiting, callee) ==
    Append(SetTop([top EXCEPT !.pc = l, !.await = awaiting]), callee)

Running(fn) == status = "running" /\ stack # <<>> /\ top.fn = fn
At(fn, l) == Running(fn) /\ top.pc = l /\ ~top.await
Returned(fn, l) == Running(fn) /\ top.pc = l /\ top.await

(* return v;                                                               *)
Return(v) ==
    /\ stack' = SubSeq(stack, 1, Len(stack) - 1)
    /\ ret' = v

(* getNextToken (lines 27-28), from the tokenizer contract: the next token *)
(* of the input; TOKEN_EOF again once the input is exhausted.              *)
getNextToken ==
    /\ pos' = pos + 1
    /\ currentToken' = IF pos < Len(tokens) THEN tokens[pos + 1] ELSE T_eof

(* createNode without line 34: the child pointers are left as malloc gave  *)
(* them.                                                                   *)
createNode_NoInit(token) ==
    [type |-> token.type, value |-> token.text, left |-> Uninit, right |-> Uninit]

(* createNode (lines 30-36): a fresh node of the token's type and text,    *)
(* with no children.  The new node's pointer is Len(heap) + 1.             *)
createNode(token) ==
    [type |-> token.type, value |-> token.text, left |-> NULL, right |-> NULL]

Alloc(token) ==
    /\ heap' = Append(heap, createNode(token))
    /\ builtBy' = Append(builtBy, top.fn)

(* exit(1) after a "Syntax error" line.                                    *)
SyntaxError(msg) ==
    /\ err' = Append(err, msg)
    /\ status' = "error"

Init ==
    /\ tokens \in Inputs
    /\ pos = 0
    /\ currentToken = Tok(0, "")
    /\ heap = <<>>
    /\ builtBy = <<>>
    /\ stack = <<[fn |-> "parseProgram", pc |-> 104, await |-> FALSE,
                  expected |-> TOKEN_EOF, node |-> Uninit, operatorNode |-> Uninit,
                  operator |-> T_eof, start |-> 0, base |-> 0]>>
    /\ ret = NULL
    /\ out = <<>>
    /\ err = <<>>
    /\ status = "running"

(* match with the two arguments of the printf of line 42 exchanged.        *)
match_SwappedReport ==
    /\ At("match", 39)
    /\ IF currentToken.type = top.expected
       THEN /\ getNextToken
            /\ Return(NULL)
            /\ UNCHANGED <<err, status>>
       ELSE /\ SyntaxError([line |-> 42, expected |-> currentToken.type,
                            got |-> top.expected])
            /\ UNCHANGED <<pos, currentToken, stack, ret>>
    /\ UNCHANGED <<tokens, heap, builtBy, out>>

(* match (lines 38-45).                                                    *)
match ==
    /\ At("match", 39)
    /\ IF currentToken.type = top.expected
       THEN /\ getNextToken
            /\ Return(NULL)
            /\ UNCHANGED <<err, status>>
       ELSE /\ SyntaxError([line |-> 42, expected |-> top.expected,
                            got |-> currentToken.type])
            /\ UNCHANGED <<pos, currentToken, stack, ret>>
    /\ UNCHANGED <<tokens, heap, builtBy, out>>

(* parseDeclaration without line 84: the `;` is not consumed.              *)
parseDeclaration_NoSemicolon ==
    \/ /\ At("parseDeclaration", 81)
       /\ stack' = Call(82, FALSE, Frame("match", TOKEN_INT))
       /\ UNCHANGED <<tokens, pos, currentToken, heap, builtBy, ret, out, err, status>>
    \/ /\ At("parseDeclaration", 82)
       /\ Alloc(currentToken)
       /\ stack' = SetTop([top EXCEPT !.node = Len(heap) + 1, !.pc = 83])
       /\ UNCHANGED <<tokens, pos, currentToken, ret, out, err, status>>
    \/ /\ At("parseDeclaration", 83)
       /\ stack' = Call(85, FALSE, Frame("match", TOKEN_IDENTIFIER))
       /\ UNCHANGED <<tokens, pos, currentToken, heap, builtBy, ret, out, err, status>>
    \/ /\ At("parseDeclaration", 85)
       /\ Return(top.node)
       /\ UNCHANGED <<tokens, pos, currentToken, heap, builtBy, out, err, status>>

(* parseDeclaration (lines 80-86).                                         *)
parseDeclaration ==
    \/ /\ At("parseDeclaration", 81)
       /\ stack' = Call(82, FALSE, Frame("match", TOKEN_INT))
       /\ UNCHANGED <<tokens, pos, currentToken, heap, builtBy, ret, out, err, status>>
    \/ /\ At("parseDeclaration", 82)
       /\ Alloc(currentToken)
       /\ stack' = SetTop([top EXCEPT !.node = Len(heap) + 1, !.pc = 83])
       /\ UNCHANGED <<tokens, pos, currentToken, ret, out, err, status>>
    \/ /\ At("parseDeclaration", 83)
       /\ stack' = Call(84, FALSE, Frame("match", TOKEN_IDENTIFIER))
       /\ UNCHANGED <<tokens, pos, currentToken, heap, builtBy, ret, out, err, status>>
    \/ /\ At("parseDeclaration", 84)
       /\ stack' = Call(85, FALSE, Frame("match", TOKEN_SEMICOLON))
       /\ UNCHANGED <<tokens, pos, currentToken, heap, builtBy, ret, out, err, status>>
    \/ /\ At("parseDeclaration", 85)
       /\ Return(top.node)
       /\ UNCHANGED <<tokens, pos, currentToken, heap, builtBy, out, err, status>>

(* parseFactor without the test of line 49: any token is taken as a factor. *)
parseFactor_NoCheck ==
    \/ /\ At("parseFactor", 48)
       /\ Alloc(currentToken)
       /\ stack' = SetTop([top EXCEPT !.node = Len(heap) + 1, !.pc = 49])
       /\ UNCHANGED <<tokens, pos, currentToken, ret, out, err, status>>
    \/ /\ At("parseFactor", 49)
       /\ stack' = Call(55, FALSE, Frame("match", currentToken.type))
       /\ UNCHANGED <<err, status>>
       /\ UNCHANGED <<tokens, pos, currentToken, heap, builtBy, ret, out>>
    \/ /\ At("parseFactor", 55)
       /\ Return(top.node)
       /\ UNCHANGED <<tokens, pos, currentToken, heap, builtBy, out, err, status>>

(* parseFactor (lines 47-56).                                              *)
parseFactor ==
    \/ /\ At("parseFactor", 48)
       /\ Alloc(currentToken)
       /\ stack' = SetTop([top EXCEPT !.node = Len(heap) + 1, !.pc = 49])
       /\ UNCHANGED <<tokens, pos, currentToken, ret, out, err, status>>
    \/ /\ At("parseFactor", 49)
       /\ IF currentToken.type = TOKEN_NUMBER \/ currentToken.type = TOKEN_IDENTIFIER
          THEN /\ stack' = Call(55, FALSE, Frame("match", currentToken.type))
               /\ UNCHANGED <<err, status>>
          ELSE /\ SyntaxError([line |-> 52])
               /\ UNCHANGED stack
       /\ UNCHANGED <<tokens, pos, currentToken, heap, builtBy, ret, out>>
    \/ /\ At("parseFactor", 55)
       /\ Return(top.node)
       /\ UNCHANGED <<tokens, pos, currentToken, heap, builtBy, out, err, status>>

(* parseExpression with the children of lines 64 and 65 exchanged.         *)
parseExpression_Swapped ==
    \/ /\ At("parseExpression", 59)
       /\ stack' = Call(59, TRUE, Frame("parseFactor", TOKEN_EOF))
       /\ UNCHANGED <<tokens, pos, currentToken, heap, builtBy, ret, out, err, status>>
    \/ /\ Returned("parseExpression", 59)
       /\ stack' = SetTop([top EXCEPT !.node = ret, !.pc = 60, !.await = FALSE])
       /\ UNCHANGED <<tokens, pos, currentToken, heap, builtBy, ret, out, err, status>>
    \/ /\ At("parseExpression", 60)
       /\ stack' = IF currentToken.type = TOKEN_PLUS \/ currentToken.type = TOKEN_MINUS
                   THEN Goto(61)
                   ELSE Goto(68)
       /\ UNCHANGED <<tokens, pos, currentToken, heap, builtBy, ret, out, err, status>>
    \/ /\ At("parseExpression", 61)
       /\ stack' = SetTop([top EXCEPT !.operator = currentToken, !.pc = 62])
       /\ UNCHANGED <<tokens, pos, currentToken, heap, builtBy, ret, out, err, status>>
    \/ /\ At("parseExpression", 62)
       /\ stack' = Call(63, FALSE, Frame("match", currentToken.type))
       /\ UNCHANGED <<tokens, pos, currentToken, heap, builtBy, ret, out, err, status>>
    \/ /\ At("parseExpression", 63)
       /\ Alloc(top.operator)
       /\ stack' = SetTop([top EXCEPT !.operatorNode = Len(heap) + 1, !.pc = 64])
       /\ UNCHANGED <<tokens, pos, currentToken, ret, out, err, status>>
    \/ /\ At("parseExpression", 64)
       /\ heap' = [heap EXCEPT ![top.operatorNode].right = top.node]
       /\ stack' = Goto(65)
       /\ UNCHANGED <<tokens, pos, currentToken, builtBy, ret, out, err, status>>
    \/ /\ At("parseExpression", 65)
       /\ stack' = Call(65, TRUE, Frame("parseFactor", TOKEN_EOF))
       /\ UNCHANGED <<tokens, pos, currentToken, heap, builtBy, ret, out, err, status>>
    \/ /\ Returned("parseExpression", 65)
       /\ heap' = [heap EXCEPT ![top.operatorNode].left = ret]
       /\ stack' = Goto(66)
       /\ UNCHANGED <<tokens, pos, currentToken, builtBy, ret, out, err, status>>
    \/ /\ At("parseExpression", 66)
       /\ stack' = SetTop([top EXCEPT !.node = top.operatorNode, !.pc = 60])
       /\ UNCHANGED <<tokens, pos, currentToken, heap, builtBy, ret, out, err, status>>
    \/ /\ At("parseExpression", 68)
       /\ Return(top.node)
       /\ UNCHANGED <<tokens, pos, currentToken, heap, builtBy, out, err, status>>

(* parseExpression (lines 58-69).                                          *)
parseExpression ==
    \/ /\ At("parseExpression", 59)
       /\ stack' = Call(59, TRUE, Frame("parseFactor", TOKEN_EOF))
       /\ UNCHANGED <<tokens, pos, currentToken, heap, builtBy, ret, out, err, status>>
    \/ /\ Returned("parseExpression", 59)
       /\ stack' = SetTop([top EXCEPT !.node = ret, !.pc = 60, !.await = FALSE])
       /\ UNCHANGED <<tokens, pos, currentToken, heap, builtBy, ret, out, err, status>>
    \/ /\ At("parseExpression", 60)
       /\ stack' = IF currentToken.type = TOKEN_PLUS \/ currentToken.type = TOKEN_MINUS
                   THEN Goto(61)
                   ELSE Goto(68)
       /\ UNCHANGED <<tokens, pos, currentToken, heap, builtBy, ret, out, err, status>>
    \/ /\ At("parseExpression", 61)
       /\ stack' = SetTop([top EXCEPT !.operator = currentToken, !.pc = 62])
       /\ UNCHANGED <<tokens, pos, currentToken, heap, builtBy, ret, out, err, status>>
    \/ /\ At("parseExpression", 62)
       /\ stack' = Call(63, FALSE, Frame("match", currentToken.type))
       /\ UNCHANGED <<tokens, pos, currentToken, heap, builtBy, ret, out, err, status>>
    \/ /\ At("parseExpression", 63)
       /\ Alloc(top.operator)
       /\ stack' = SetTop([top EXCEPT !.operatorNode = Len(heap) + 1, !.pc = 64])
       /\ UNCHANGED <<tokens, pos, currentToken, ret, out, err, status>>
    \/ /\ At("parseExpression", 64)
       /\ heap' = [heap EXCEPT ![top.operatorNode].left = top.node]
       /\ stack' = Goto(65)
       /\ UNCHANGED <<tokens, pos, currentToken, builtBy, ret, out, err, status>>
    \/ /\ At("parseExpression", 65)
       /\ stack' = Call(65, TRUE, Frame("parseFactor", TOKEN_EOF))
       /\ UNCHANGED <<tokens, pos, currentToken, heap, builtBy, ret, out, err, status>>
    \/ /\ Returned("parseExpression", 65)
       /\ heap' = [heap EXCEPT ![top.operatorNode].right = ret]
       /\ stack' = Goto(66)
       /\ UNCHANGED <<tokens, pos, currentToken, builtBy, ret, out, err, status>>
    \/ /\ At("parseExpression", 66)
       /\ stack' = SetTop([top EXCEPT !.node = top.operatorNode, !.pc = 60])
       /\ UNCHANGED <<tokens, pos, currentToken, heap, builtBy, ret, out, err, status>>
    \/ /\ At("parseExpression", 68)
       /\ Return(top.node)
       /\ UNCHANGED <<tokens, pos, currentToken, heap, builtBy, out, err, status>>

(* parseAssignment storing the expression as the left child on line 75.    *)
parseAssignment_Left ==
    \/ /\ At("parseAssignment", 72)
       /\ Alloc(currentToken)
       /\ stack' = SetTop([top EXCEPT !.node = Len(heap) + 1, !.pc = 73])
       /\ UNCHANGED <<tokens, pos, currentToken, ret, out, err, status>>
    \/ /\ At("parseAssignment", 73)
       /\ stack' = Call(74, FALSE, Frame("match", TOKEN_IDENTIFIER))
       /\ UNCHANGED <<tokens, pos, currentToken, heap, builtBy, ret, out, err, status>>
    \/ /\ At("parseAssignment", 74)
       /\ stack' = Call(75, FALSE, Frame("match", TOKEN_ASSIGN))
       /\ UNCHANGED <<tokens, pos, currentToken, heap, builtBy, ret, out, err, status>>
    \/ /\ At("parseAssignment", 75)
       /\ stack' = Call(75, TRUE, Frame("parseExpression", TOKEN_EOF))
       /\ UNCHANGED <<tokens, pos, currentToken, heap, builtBy, ret, out, err, status>>
    \/ /\ Returned("parseAssignment", 75)
       /\ heap' = [heap EXCEPT ![top.node].left = ret]
       /\ stack' = Goto(76)
       /\ UNCHANGED <<tokens, pos, currentToken, builtBy, ret, out, err, status>>
    \/ /\ At("parseAssignment", 76)
       /\ stack' = Call(77, FALSE, Frame("match", TOKEN_SEMICOLON))
       /\ UNCHANGED <<tokens, pos, currentToken, heap, builtBy, ret, out, err, status>>
    \/ /\ At("parseAssignment", 77)
       /\ Return(top.node)
       /\ UNCHANGED <<tokens, pos, currentToken, heap, builtBy, out, err, status>>

(* parseAssignment (lines 71-78).                                          *)
parseAssignment ==
    \/ /\ At("parseAssignment", 72)
       /\ Alloc(currentToken)
       /\ stack' = SetTop([top EXCEPT !.node = Len(heap) + 1, !.pc = 73])
       /\ UNCHANGED <<tokens, pos, currentToken, ret, out, err, status>>
    \/ /\ At("parseAssignment", 73)
       /\ stack' = Call(74, FALSE, Frame("match", TOKEN_IDENTIFIER))
       /\ UNCHANGED <<tokens, pos, currentToken, heap, builtBy, ret, out, err, status>>
    \/ /\ At("parseAssignment", 74)
       /\ stack' = Call(75, FALSE, Frame("match", TOKEN_ASSIGN))
       /\ UNCHANGED <<tokens, pos, currentToken, heap, builtBy, ret, out, err, status>>
    \/ /\ At("parseAssignment", 75)
       /\ stack' = Call(75, TRUE, Frame("parseExpression", TOKEN_EOF))
       /\ UNCHANGED <<tokens, pos, currentToken, heap, builtBy, ret, out, err, status>>
    \/ /\ Returned("parseAssignment", 75)
       /\ heap' = [heap EXCEPT ![top.node].right = ret]
       /\ stack' = Goto(76)
       /\ UNCHANGED <<tokens, pos, currentToken, builtBy, ret, out, err, status>>
    \/ /\ At("parseAssignment", 76)
       /\ stack' = Call(77, FALSE, Frame("match", TOKEN_SEMICOLON))
       /\ UNCHANGED <<tokens, pos, currentToken, heap, builtBy, ret, out, err, status>>
    \/ /\ At("parseAssignment", 77)
       /\ Return(top.node)
       /\ UNCHANGED <<tokens, pos, currentToken, heap, builtBy, out, err, status>>

(* parseConditional (lines 88-101).  The local `body` is kept in the       *)
(* frame's operatorNode field.                                             *)
parseConditional ==
    \/ /\ At("parseConditional", 89)
       /\ stack' = Call(90, FALSE, Frame("match", TOKEN_IF))
       /\ UNCHANGED <<tokens, pos, currentToken, heap, builtBy, ret, out, err, status>>
    \/ /\ At("parseConditional", 90)
       /\ stack' = Call(91, FALSE, Frame("match", TOKEN_LBRACE))
       /\ UNCHANGED <<tokens, pos, currentToken, heap, builtBy, ret, out, err, status>>
    \/ /\ At("parseConditional", 91)
       /\ Alloc(currentToken)
       /\ stack' = SetTop([top EXCEPT !.node = Len(heap) + 1, !.pc = 92])
       /\ UNCHANGED <<tokens, pos, currentToken, ret, out, err, status>>
    \/ /\ At("parseConditional", 92)
       /\ stack' = Call(92, TRUE, Frame("parseExpression", TOKEN_EOF))
       /\ UNCHANGED <<tokens, pos, currentToken, heap, builtBy, ret, out, err, status>>
    \/ /\ Returned("parseConditional", 92)
       /\ heap' = [heap EXCEPT ![top.node].left = ret]
       /\ stack' = Goto(93)
       /\ UNCHANGED <<tokens, pos, currentToken, builtBy, ret, out, err, status>>
    \/ /\ At("parseConditional", 93)
       /\ stack' = Call(94, FALSE, Frame("match", TOKEN_EQUAL))
       /\ UNCHANGED <<tokens, pos, currentToken, heap, builtBy, ret, out, err, status>>
    \/ /\ At("parseConditional", 94)
       /\ stack' = Call(94, TRUE, Frame("parseExpression", TOKEN_EOF))
       /\ UNCHANGED <<tokens, pos, currentToken, heap, builtBy, ret, out, err, status>>
    \/ /\ Returned("parseConditional", 94)
       /\ heap' = [heap EXCEPT ![top.node].right = ret]
       /\ stack' = Goto(95)
       /\ UNCHANGED <<tokens, pos, currentToken, builtBy, ret, out, err, status>>
    \/ /\ At("parseConditional", 95)
       /\ stack' = Call(96, FALSE, Frame("match", TOKEN_RBRACE))
       /\ UNCHANGED <<tokens, pos, currentToken, heap, builtBy, ret, out, err, status>>
    \/ /\ At("parseConditional", 96)
       /\ stack' = Call(97, FALSE, Frame("match", TOKEN_LBRACE))
       /\ UNCHANGED <<tokens, pos, currentToken, heap, builtBy, ret, out, err, status>>
    \/ /\ At("parseConditional", 97)
       /\ stack' = Call(97, TRUE, Frame("parseAssignment", TOKEN_EOF))
       /\ UNCHANGED <<tokens, pos, currentToken, heap, builtBy, ret, out, err, status>>
    \/ /\ Returned("parseConditional", 97)
       /\ stack' = SetTop([top EXCEPT !.operatorNode = ret, !.pc = 98, !.await = FALSE])
       /\ UNCHANGED <<tokens, pos, currentToken, heap, builtBy, ret, out, err, status>>
    \/ /\ At("parseConditional", 98)
       /\ heap' = [heap EXCEPT ![top.node].left = top.operatorNode]
       /\ stack' = Goto(99)
       /\ UNCHANGED <<tokens, pos, currentToken, builtBy, ret, out, err, status>>
    \/ /\ At("parseConditional", 99)
       /\ stack' = Call(100, FALSE, Frame("match", TOKEN_RBRACE))
       /\ UNCHANGED <<tokens, pos, currentToken, heap, builtBy, ret, out, err, status>>
    \/ /\ At("parseConditional", 100)
       /\ Return(top.node)
       /\ UNCHANGED <<tokens, pos, currentToken, heap, builtBy, out, err, status>>

(* printf("Parsed statement with root: %s\n", p->value) (line 114).        *)
Printed(p) == [root |-> p, value |-> heap[p].value]

(* What line 114 can do when stmt was never assigned: the pointer is       *)
(* whatever the stack slot held.  NULL stands for an unmapped address      *)
(* (the read faults), a node pointer for a stale pointer into the heap,    *)
(* Uninit for an address of readable memory that holds no node.            *)
UninitStmtValues == {NULL, Uninit} \cup (1..Len(heap))

(* parseProgram (lines 103-116), called from main (line 124), which then   *)
(* returns 0.                                                              *)
parseProgram ==
    \/ /\ At("parseProgram", 104)
       /\ getNextToken
       /\ stack' = Goto(105)
       /\ UNCHANGED <<tokens, heap, builtBy, ret, out, err, status>>
    \/ /\ At("parseProgram", 105)
       /\ IF currentToken.type # TOKEN_EOF
          THEN /\ stack' = SetTop([top EXCEPT !.node = Uninit, !.pc = 107,
                                                !.start = pos])
               /\ UNCHANGED <<ret, status>>
          ELSE /\ Return(NULL)
               /\ status' = "done"
       /\ UNCHANGED <<tokens, pos, currentToken, heap, builtBy, out, err>>
    \/ /\ At("parseProgram", 107)
       /\ stack' = CASE currentToken.type = TOKEN_INT ->
                          Call(108, TRUE, Frame("parseDeclaration", TOKEN_EOF))
                     [] currentToken.type = TOKEN_IF ->
                          Call(110, TRUE, Frame("parseConditional", TOKEN_EOF))
                     [] currentToken.type = TOKEN_IDENTIFIER ->
                          Call(112, TRUE, Frame("parseAssignment", TOKEN_EOF))
                     [] OTHER -> Goto(114)
       /\ UNCHANGED <<tokens, pos, currentToken, heap, builtBy, ret, out, err, status>>
    \/ /\ Running("parseProgram") /\ top.await /\ top.pc \in {108, 110, 112}
       /\ stack' = SetTop([top EXCEPT !.node = ret, !.pc = 114, !.await = FALSE])
       /\ UNCHANGED <<tokens, pos, currentToken, heap, builtBy, ret, out, err, status>>
    \/ /\ At("parseProgram", 114)
       /\ top.node # Uninit
       /\ Len(out) < MaxOut
       /\ out' = Append(out, Printed(top.node))
       /\ stack' = Goto(105)
       /\ UNCHANGED <<tokens, pos, currentToken, heap, builtBy, ret, err, status>>
    \/ /\ At("parseProgram", 114)
       /\ top.node = Uninit
       /\ Len(out) < MaxOut
       /\ \E p \in UninitStmtValues :
            CASE p = NULL ->
                   /\ status' = "crash"
                   /\ UNCHANGED <<stack, out>>
              [] p = Uninit ->
                   /\ out' = Append(out, [root |-> Uninit, value |-> "?"])
                   /\ stack' = Goto(105)
                   /\ UNCHANGED status
              [] OTHER ->
                   /\ out' = Append(out, Printed(p))
                   /\ stack' = Goto(105)
                   /\ UNCHANGED status
       /\ UNCHANGED <<tokens, pos, currentToken, heap, builtBy, ret, err>>

Next ==
    \/ parseProgram
    \/ parseDeclaration
    \/ parseConditional
    \/ parseAssignment
    \/ parseExpression
    \/ parseFactor
    \/ match

Spec == Init /\ [][Next]_vars

-----------------------------------------------------------------------------
(* Reading the heap.                                                       *)

IsNode(p) == p \in 1..Len(heap)

(* The subtree at pointer p as a value: <<>> for NULL, else                *)
(* <<type, value, left subtree, right subtree>>.                           *)
RECURSIVE Tree(_)
Tree(p) ==
    IF ~IsNode(p) THEN <<>>
    ELSE <<heap[p].type, heap[p].value, Tree(heap[p].left), Tree(heap[p].right)>>

ChildPointers(p) == {heap[p].left, heap[p].right} \ {NULL}

RECURSIVE ReachFrom(_)
ReachFrom(S) ==
    LET more == S \cup {c \in UNION {ChildPointers(p) : p \in S} : IsNode(c)}
    IN  IF more = S THEN S ELSE ReachFrom(more)

(* The nodes reachable from pointer p, p included.                         *)
Reach(p) == IF IsNode(p) THEN ReachFrom({p}) ELSE {}

-----------------------------------------------------------------------------
(* The grammar of the specification (section 4.2), on token sequences,     *)
(* and the trees it prescribes.                                            *)

IsFactorTok(t) == t.type \in {TOKEN_NUMBER, TOKEN_IDENTIFIER}
IsOperatorTok(t) == t.type \in {TOKEN_PLUS, TOKEN_MINUS}

IsExprSeq(s) ==
    /\ Len(s) % 2 = 1
    /\ \A i \in 1..Len(s) : IF i % 2 = 1 THEN IsFactorTok(s[i]) ELSE IsOperatorTok(s[i])

IsDeclarationSeq(s) ==
    /\ Len(s) = 3
    /\ s[1].type = TOKEN_INT
    /\ s[2].type = TOKEN_IDENTIFIER
    /\ s[3].type = TOKEN_SEMICOLON

IsAssignmentSeq(s) ==
    /\ Len(s) >= 4
    /\ s[1].type = TOKEN_IDENTIFIER
    /\ s[2].type = TOKEN_ASSIGN
    /\ s[Len(s)].type = TOKEN_SEMICOLON
    /\ IsExprSeq(SubSeq(s, 3, Len(s) - 1))

(* The index of the first token of type t in s, 0 if there is none.        *)
FirstOf(s, t) ==
    IF \E i \in 1..Len(s) : s[i].type = t
    THEN CHOOSE i \in 1..Len(s) :
            s[i].type = t /\ \A j \in 1..(i - 1) : s[j].type # t
    ELSE 0

(* "if" "{" E1 "==" E2 "}" "{" Assignment "}" : the parts of s.            *)
CondE1(s) == SubSeq(s, 3, FirstOf(s, TOKEN_EQUAL) - 1)
CondE2(s) == SubSeq(s, FirstOf(s, TOKEN_EQUAL) + 1, FirstOf(s, TOKEN_RBRACE) - 1)
CondBody(s) == SubSeq(s, FirstOf(s, TOKEN_RBRACE) + 2, Len(s) - 1)

IsConditionalSeq(s) ==
    /\ Len(s) >= 12
    /\ s[1].type = TOKEN_IF
    /\ s[2].type = TOKEN_LBRACE
    /\ FirstOf(s, TOKEN_EQUAL) > 3
    /\ FirstOf(s, TOKEN_RBRACE) > FirstOf(s, TOKEN_EQUAL) + 1
    /\ FirstOf(s, TOKEN_RBRACE) + 2 < Len(s)
    /\ IsExprSeq(CondE1(s))
    /\ IsExprSeq(CondE2(s))
    /\ s[FirstOf(s, TOKEN_RBRACE) + 1].type = TOKEN_LBRACE
    /\ IsAssignmentSeq(CondBody(s))
    /\ s[Len(s)].type = TOKEN_RBRACE

IsStatementSeq(s) == IsDeclarationSeq(s) \/ IsAssignmentSeq(s) \/ IsConditionalSeq(s)

(* The length of the statement s begins with, 0 if it begins with none.    *)
FirstStatementLen(s) ==
    IF \E n \in 1..Len(s) : IsStatementSeq(SubSeq(s, 1, n))
    THEN CHOOSE n \in 1..Len(s) :
            /\ IsStatementSeq(SubSeq(s, 1, n))
            /\ \A m \in 1..(n - 1) : ~IsStatementSeq(SubSeq(s, 1, m))
    ELSE 0

(* Program := { Statement } : the statements of s in order; <<<<>>>> is    *)
(* appended where s stops being a sequence of statements.                  *)
RECURSIVE Statements(_)
Statements(s) ==
    IF s = <<>> THEN <<>>
    ELSE LET n == FirstStatementLen(s)
         IN  IF n = 0 THEN <<<<>>>>
             ELSE <<SubSeq(s, 1, n)>> \o Statements(SubSeq(s, n + 1, Len(s)))

(* The input without its final TOKEN_EOF.                                  *)
Source == SubSeq(tokens, 1, Len(tokens) - 1)

Grammatical == \A i \in 1..Len(Statements(Source)) : Statements(Source)[i] # <<>>

Leaf(t) == <<t.type, t.text, <<>>, <<>> >>

(* The left-deep tree of the expression f1 op1 f2 ... opN fN+1.            *)
RECURSIVE LeftDeep(_)
LeftDeep(s) ==
    IF Len(s) <= 1 THEN (IF s = <<>> THEN <<>> ELSE Leaf(s[1]))
    ELSE <<s[Len(s) - 1].type, s[Len(s) - 1].text,
           LeftDeep(SubSeq(s, 1, Len(s) - 2)), Leaf(s[Len(s)])>>

(* The tree of the assignment Identifier "=" E ";".                        *)
AssignmentTree(s) ==
    <<TOKEN_IDENTIFIER, s[1].text, <<>>, LeftDeep(SubSeq(s, 3, Len(s) - 1))>>

(* The tokens the running call has consumed.                               *)
Consumed == SubSeq(tokens, top.start, pos - 1)

-----------------------------------------------------------------------------
(* C1: at statement position (line 107), a current token of a kind other   *)
(* than Int, If or Identifier ends the parse in a syntax error: the step   *)
(* the dispatch takes there reports an error.                              *)
C1_OtherKindIsSyntaxError ==
    [][(At("parseProgram", 107)
        /\ currentToken.type \notin {TOKEN_INT, TOKEN_IF, TOKEN_IDENTIFIER})
       => status' = "error"]_vars

(* C2: the node parseConditional returns holds the tree of E1 and the tree *)
(* of E2 as the left and right children of the comparison (the node itself *)
(* or a child of it), and, outside that comparison's subtrees, the node of *)
(* the body assignment.                                                    *)
C2_ConditionalKeepsAllSubtrees ==
    At("parseConditional", 100) =>
        \E cmp \in {top.node} \cup ChildPointers(top.node) :
            /\ IsNode(cmp)
            /\ Tree(heap[cmp].left) = LeftDeep(CondE1(Consumed))
            /\ Tree(heap[cmp].right) = LeftDeep(CondE2(Consumed))
            /\ \E body \in Reach(top.node) \ (Reach(heap[cmp].left) \cup Reach(heap[cmp].right)) :
                  Tree(body) = AssignmentTree(CondBody(Consumed))

(* Whether the printed line o is the root of statement st: a node built by *)
(* the function of st's kind, with st's tree where the grammar fixes it.   *)
RootMatches(o, st) ==
    /\ IsNode(o.root)
    /\ o.value = heap[o.root].value
    /\ CASE st[1].type = TOKEN_INT ->
              builtBy[o.root] = "parseDeclaration" /\ Tree(o.root) = Leaf(st[2])
         [] st[1].type = TOKEN_IDENTIFIER ->
              builtBy[o.root] = "parseAssignment" /\ Tree(o.root) = AssignmentTree(st)
         [] OTHER ->
              builtBy[o.root] = "parseConditional"

(* C3: on an input derivable from Program, the parse never stops short,    *)
(* in an error or a fault, and when it has ended, one root was printed per *)
(* statement, in source order, each built by that statement's function     *)
(* and carrying its name, with every token consumed and the current token  *)
(* TOKEN_EOF.                                                              *)
C3_GrammaticalInputParses ==
    IF status = "running"
    THEN ENABLED Next \/ ~Grammatical
    ELSE Grammatical =>
            /\ status = "done"
            /\ err = <<>>
            /\ currentToken.type = TOKEN_EOF
            /\ pos = Len(tokens)
            /\ Len(out) = Len(Statements(Source))
            /\ \A i \in 1..Len(out) : RootMatches(out[i], Statements(Source)[i])

C3_Witness ==
    /\ status = "done"
    /\ Len(out) = 2
    /\ builtBy[out[1].root] = "parseConditional"
    /\ builtBy[out[2].root] = "parseAssignment"

(* C4: the tree parseExpression returns is the left-deep tree of the       *)
(* factors and operators it consumed, and it consumed the whole run of     *)
(* operators.                                                              *)
C4_LeftAssociative ==
    At("parseExpression", 68) =>
        /\ IsExprSeq(Consumed)
        /\ ~IsOperatorTok(currentToken)
        /\ Tree(top.node) = LeftDeep(Consumed)

C4_Witness ==
    /\ At("parseExpression", 68)
    /\ Len(Consumed) = 5
    /\ Consumed[2].type = TOKEN_PLUS
    /\ Consumed[4].type = TOKEN_MINUS
    /\ Tree(top.node) =
         <<TOKEN_MINUS, "",
           <<TOKEN_PLUS, "", Leaf(Consumed[1]), Leaf(Consumed[3])>>,
           Leaf(Consumed[5])>>

(* C5: a step of match either finds the expected kind, and then the        *)
(* current token becomes the next token of the input and nothing is        *)
(* reported, or it reports one syntax error naming the expected and the    *)
(* actual kind, and then no token is consumed.                             *)
C5_Match ==
    [][At("match", 39) =>
         IF currentToken.type = top.expected
         THEN /\ pos < Len(tokens)
              /\ pos' = pos + 1
              /\ currentToken' = tokens[pos + 1]
              /\ status' = "running"
              /\ err' = err
         ELSE /\ status' = "error"
              /\ err' = Append(err, [line |-> 42, expected |-> top.expected,
                                     got |-> currentToken.type])
              /\ pos' = pos
              /\ currentToken' = currentToken]_vars

(* "int 5;" : the `int` was matched, then Identifier expected, Number found. *)
C5_Witness ==
    /\ status = "error"
    /\ tokens[1].type = TOKEN_INT
    /\ tokens[2].type = TOKEN_NUMBER
    /\ pos = 2
    /\ err = <<[line |-> 42, expected |-> TOKEN_IDENTIFIER, got |-> TOKEN_NUMBER]>>

(* C6: a parse that ends without error printed no error, and a parse that  *)
(* ends in a syntax error printed exactly one and delivered no statement   *)
(* root, not even those of the statements before the error.                *)
C6_FailFastNoPartial ==
    /\ status = "done" => err = <<>>
    /\ status = "error" => Len(err) = 1 /\ out = <<>>

(* C7: the statement loop makes progress, so that the parse stops: when an *)
(* iteration reaches its end (line 114) it has consumed a token since its  *)
(* test (line 105), and the process ends only by reaching TOKEN_EOF at     *)
(* statement position or by a syntax error.                                *)
C7_LoopConsumes ==
    /\ status \in {"running", "done", "error"}
    /\ At("parseProgram", 114) => pos > top.start

(* C8: the node parseAssignment returns carries the lexeme of the leading  *)
(* identifier, has no left child, has the expression's tree as its right   *)
(* child, and the call consumed Identifier "=" E ";" and no more.          *)
C8_Assignment ==
    At("parseAssignment", 77) =>
        /\ IsAssignmentSeq(Consumed)
        /\ heap[top.node].value = Consumed[1].text
        /\ heap[top.node].left = NULL
        /\ Tree(heap[top.node].right) = LeftDeep(SubSeq(Consumed, 3, Len(Consumed) - 1))

(* "x = 1 + 2;" : the right child is a Plus node over two leaves.          *)
C8_Witness ==
    /\ At("parseAssignment", 77)
    /\ Len(Consumed) = 6
    /\ Tree(top.node) =
         <<TOKEN_IDENTIFIER, Consumed[1].text, <<>>,
           <<TOKEN_PLUS, "", Leaf(Consumed[3]), Leaf(Consumed[5])>> >>
    /\ Consumed[3].type = TOKEN_NUMBER

(* No node reachable from root is a child twice, and root is no child.     *)
IsTree(root) ==
    \A m, n \in Reach(root) :
        /\ heap[n].left # NULL => heap[n].left # heap[m].right
        /\ (m # n /\ heap[n].left # NULL) => heap[n].left # heap[m].left
        /\ (m # n /\ heap[n].right # NULL) => heap[n].right # heap[m].right
        /\ heap[n].left # root /\ heap[n].right # root

(* C9: in the tree of a statement root returned to parseProgram, a Plus or *)
(* Minus node has both children, a node built by parseFactor or by         *)
(* parseDeclaration has none, and no node is a child twice.                *)
C9_Shape ==
    (Running("parseProgram") /\ top.await) =>
        /\ IsNode(ret)
        /\ \A n \in Reach(ret) :
              /\ heap[n].type \in {TOKEN_PLUS, TOKEN_MINUS}
                    => IsNode(heap[n].left) /\ IsNode(heap[n].right)
              /\ builtBy[n] \in {"parseFactor", "parseDeclaration"}
                    => heap[n].left = NULL /\ heap[n].right = NULL
        /\ IsTree(ret)
        /\ builtBy[ret] = "parseDeclaration" => Tree(ret) = Leaf(tokens[pos - 2])

(* A returned conditional whose condition and body hold operator nodes.    *)
C9_Witness ==
    /\ Running("parseProgram") /\ top.await
    /\ builtBy[ret] = "parseConditional"
    /\ \E n \in Reach(ret) : heap[n].type = TOKEN_MINUS
    /\ Cardinality(Reach(ret)) >= 6

(* C10: getNextToken is never called while the current token is           *)
(* TOKEN_EOF, nor once the input is exhausted.                             *)
C10_NoReadPastEnd ==
    [][pos' # pos => (currentToken.type # TOKEN_EOF /\ pos < Len(tokens))]_vars

(* TOKEN_EOF met inside a statement: a syntax error, the cursor at the end. *)
C10_Witness ==
    /\ status = "error"
    /\ currentToken.type = TOKEN_EOF
    /\ pos = Len(tokens)
    /\ Len(stack) > 2

====
